---- MODULE Spec2Model ----
(***************************************************************************)
(* Client-side authorization of SchoolManApp: RouteProtector (three React  *)
(* effects), AuthLoadingProvider (the Loading Flag), AuthLoadingOverlay    *)
(* (the loader the flag drives) and the middleware that gates requests.    *)
(*                                                                         *)
(* React is modelled as it schedules the component: a render commits the   *)
(* values of the hooks (pathname, isLoaded, userId, user, the state         *)
(* cells); afterwards the passive effects whose dependencies changed run   *)
(* in source order against the values of that render; the state updates    *)
(* they queue are applied together by the next render.  External events    *)
(* (navigation, Clerk finishing to load, sign-in, sign-out) are rendered   *)
(* only after the effects of the previous commit were flushed.             *)
(*                                                                         *)
(* Strings that the code inspects by prefix are sequences of characters.   *)
(*                                                                         *)
(* Server side: the route handlers /api/user/role, /api/user/update-role   *)
(* and the Clerk webhook over the Role Record store and the claims.  Each  *)
(* awaited call is a step, so requests interleave at their awaits (Spec:   *)
(* the client, ApiSpec: the handlers, GateSpec: the middleware).           *)
(***************************************************************************)
EXTENDS Integers, Sequences, FiniteSets, Bags, TLC

VARIABLES
  session,          \* identity of the Clerk session (server side / cookie)
  pathname,         \* usePathname() of the committed render
  isLoaded,         \* useAuth().isLoaded
  userId,           \* useAuth().userId  (NoId = null)
  user,             \* useUser().user    (NoUser = null/undefined)
  userRole,         \* useState<string|null>(null)
  isRoleLoaded,     \* useState(false)
  isAuthLoading,    \* AuthLoadingProvider: useState(true)
  qAuthLoading,     \* queued setAuthLoading calls of the current flush
  qUserRole,        \* queued setUserRole calls
  qIsRoleLoaded,    \* queued setIsRoleLoaded calls
  deps0, deps1, deps2,  \* dependency arrays of the last run of each effect
  pc,               \* what React does next
  pendingPush,      \* target of a router.push that has not completed
  overlayShown,     \* committed output of AuthLoadingOverlay
  childrenMounted,  \* committed output of RouteProtector
  decision,         \* outcome of the last run of effect 2
  cancelled         \* protected path whose pending check a navigation superseded

vars == <<session, pathname, isLoaded, userId, user, userRole, isRoleLoaded,
          isAuthLoading, qAuthLoading, qUserRole, qIsRoleLoaded,
          deps0, deps1, deps2, pc, pendingPush, overlayShown,
          childrenMounted, decision, cancelled>>

\* Server side: the Role Record store (Prisma), the claims (Clerk
\* publicMetadata) and the route handlers, each await a step of its own.
VARIABLES
  records,          \* prisma.user: id -> [role, email] of the rows that exist
  claims,           \* Clerk publicMetadata.role of each identity ("" = unset)
  token,            \* claims as cached in the session token of one client
  reqs,             \* the requests being handled (a bag)
  resp,             \* the last response sent
  calls,            \* number of requests received
  resolved,         \* last role /api/user/role returned, record unchanged since
  lastUpdate        \* last role /api/user/update-role mirrored to the claims

svars == <<records, claims, token, reqs, resp, calls, resolved, lastUpdate>>

\* DashboardLayout and Menu: the page-transition loader
VARIABLES
  dlMounted,        \* the layout is on screen
  dlPathname,       \* usePathname() as DashboardLayout last rendered it
  isLoading,        \* useState(false): the PageLoader replaces the content
  lastPath,         \* useState(""): path of the last run of the effect
  currentRole,      \* Menu state: role of the demo auth store, or null
  navigation,       \* target of the router navigation in progress
  dlPc              \* "effect": the effect of the committed render is pending

dlvars == <<dlMounted, dlPathname, isLoading, lastPath, currentRole,
            navigation, dlPc>>

\* The sign-out controls: ClerkSignOutButton, the Logout item of Menu, and a
\* Clerk control whose click SignOutInterceptor catches
VARIABLES
  isLoggingOut,     \* useState(false) of each control: its LogoutLoader is up
  handled,          \* SignOutInterceptor: useState(false)
  soTimer,          \* per control: its setTimeout is scheduled and has not run
  soElapsed,        \* per control: seconds since the first click (-1: none)
  soCalls,          \* per control: signOut() invocations since the first click
  soEarly,          \* per control: signOut() was invoked before the delay
  soClicks,         \* clicks made so far
  soGone            \* the user is signed out or the page was left

sovars == <<isLoggingOut, handled, soTimer, soElapsed, soCalls, soEarly,
            soClicks, soGone>>

\* the demo auth store in localStorage, its events, and the SignInLoader
VARIABLES smaAuth, showFlag, lastOp, authEvents, lastRead,
          slMounted, isVisible, slTimers, slSince
stvars == <<smaAuth, showFlag, lastOp, authEvents, lastRead,
            slMounted, isVisible, slTimers, slSince>>
uvars == <<dlvars, sovars, stvars>>

allvars == <<vars, svars, uvars>>

(***************************************************************************)
(* Bounds                                                                  *)
(***************************************************************************)
\* identities; requests handled at the same time; requests received
MaxUsers == 2
MaxReqs == 2
MaxCalls == 2
\* clicks on sign-out controls
MaxClicks == 3

(***************************************************************************)
(* Values                                                                  *)
(***************************************************************************)
Null == "null"
NoId == 0
NoPath == <<>>
Unrun == <<>>

Roles == {"admin", "teacher", "student", "parent"}

\* publicMetadata.role as Clerk may hold it: a role, nothing, or another string
ClaimRoles == Roles \cup {"", "guest"}

NoUser == [id |-> NoId, role |-> ""]
Identities == [id : 1..MaxUsers, role : ClaimRoles]

RootPath     == <<"/">>
SignInPath   == <<"/", "s", "i", "g", "n", "-", "i", "n">>
AdminPath    == <<"/", "a", "d", "m", "i", "n">>
TeacherPath  == <<"/", "t", "e", "a", "c", "h", "e", "r">>
StudentPath  == <<"/", "s", "t", "u", "d", "e", "n", "t">>
ParentPath   == <<"/", "p", "a", "r", "e", "n", "t">>
ListPath     == <<"/", "l", "i", "s", "t">>
ProfilePath  == <<"/", "p", "r", "o", "f", "i", "l", "e">>
SettingsPath == <<"/", "s", "e", "t", "t", "i", "n", "g", "s">>
LogoutPath   == <<"/", "l", "o", "g", "o", "u", "t">>
AdminSubPath == AdminPath \o <<"/", "x">>
AdminXPath   == AdminPath \o <<"x">>

\* the paths the user visits
Paths == {RootPath, SignInPath, AdminPath, TeacherPath, StudentPath,
          ParentPath, ListPath, AdminSubPath, AdminXPath}

(***************************************************************************)
(* RouteProtector: route tables and helpers                                *)
(***************************************************************************)
DashboardKeys == <<AdminPath, TeacherPath, StudentPath, ParentPath>>

DASHBOARD_ROUTES(route) ==
  IF route = AdminPath THEN {"admin"}
  ELSE IF route = TeacherPath THEN {"teacher"}
  ELSE IF route = StudentPath THEN {"student"}
  ELSE IF route = ParentPath THEN {"parent"}
  ELSE {}

LIST_ROUTES == <<ListPath, ProfilePath, SettingsPath, LogoutPath>>

PROTECTED_ROUTES == DashboardKeys \o LIST_ROUTES

startsWith(s, prefix) ==
  /\ Len(s) >= Len(prefix)
  /\ SubSeq(s, 1, Len(prefix)) = prefix

isProtectedRoute(p) ==
  \E i \in 1..Len(PROTECTED_ROUTES) : startsWith(p, PROTECTED_ROUTES[i])

\* variant: a key matches every path it is a prefix of
DashboardMatchesPrefix(p) ==
  {i \in 1..Len(DashboardKeys) : startsWith(p, DashboardKeys[i])}

\* the first key, in Object.keys order, that p equals or extends by "/..."
DashboardMatches(p) ==
  {i \in 1..Len(DashboardKeys) :
     \/ startsWith(p, DashboardKeys[i] \o <<"/">>)
     \/ p = DashboardKeys[i]}

getDashboardRoute(p) ==
  IF DashboardMatches(p) = {} THEN NoPath
  ELSE DashboardKeys[CHOOSE i \in DashboardMatches(p) :
                       \A j \in DashboardMatches(p) : i <= j]

\* user?.publicMetadata?.role || null
getUserRoleFromClaims(u) ==
  IF u = NoUser THEN Null
  ELSE IF u.role = "" THEN Null
  ELSE u.role

(***************************************************************************)
(* Middleware                                                              *)
(***************************************************************************)
MwProtectedPrefixes == <<AdminPath, TeacherPath, StudentPath, ParentPath,
                         ListPath, ProfilePath, SettingsPath, LogoutPath>>

\* the letters of the visited paths that have an upper-case form
toLowerCase(p) ==
  [i \in 1..Len(p) |-> IF p[i] = "A" THEN "a" ELSE p[i]]

\* createRouteMatcher(["/admin(.*)", ...]): each pattern is compiled by
\* path-to-regexp into ^\/admin(.*)[\/#\?]?$ with the flag i (its option
\* `sensitive` is off unless given, and createRouteMatcher gives none)
MwIsProtectedRoute(p) ==
  \E i \in 1..Len(MwProtectedPrefixes) :
    startsWith(toLowerCase(p), MwProtectedPrefixes[i])

\* auth.protect(): a promise, fulfilled for a signed-in caller and rejected
\* with the redirect to sign-in otherwise
authProtect(sess) == IF sess = NoUser THEN "rejected" ELSE "fulfilled"

\* the paths a request for p may be served with.  The handler calls
\* auth.protect() on a protected route but neither awaits nor returns the
\* promise: a rejection that settles after the handler returned is lost and
\* the request continues; one that is raised in time redirects to sign-in.
clerkMiddleware(p, sess) ==
  IF MwIsProtectedRoute(p) /\ authProtect(sess) = "rejected"
  THEN {SignInPath, p} ELSE {p}

(***************************************************************************)
(* Render functions                                                        *)
(***************************************************************************)
\* AuthLoadingOverlay: the loader is shown iff isAuthLoading
AuthLoadingOverlay(loading) == loading

\* variant: the earlier "render nothing while checking" strategy
RouteProtectorRenderNull(loading) == ~loading

\* RouteProtector: return <>{children}</>
RouteProtectorRender(loading) == TRUE

\* what the user sees of the page of the current path
ContentVisible == childrenMounted /\ ~overlayShown

(***************************************************************************)
(* Dependency arrays                                                       *)
(***************************************************************************)
Effect0Deps == <<pathname>>
Effect1Deps == <<isLoaded, userId, user>>
\* variant: pathname left out of the dependency array of effect 2
Effect2DepsNoPath == <<isLoaded, isRoleLoaded, userId, userRole>>

\* variant: isRoleLoaded left out of the dependency array of effect 2
Effect2DepsNoRoleLoaded == <<pathname, isLoaded, userId, userRole>>

Effect2Deps == <<pathname, isLoaded, isRoleLoaded, userId, userRole>>

NoDecision == [kind |-> "NONE", path |-> NoPath, userId |-> NoId,
               role |-> Null, redirect |-> NoPath]

Last(q) == q[Len(q)]

(***************************************************************************)
(* Server-side values                                                      *)
(***************************************************************************)
Ids == 1..MaxUsers

\* what a request body may carry as userId: nothing, a non-string, an id
MissingId == 0
NonStringId == -1
BodyIds == {MissingId, NonStringId} \cup Ids

NoEmail == ""
Email == "a@x"

\* role given to a record created without one
DefaultRole == "student"

\* roles update-role accepts
ValidRoles == {"admin", "teacher", "student", "parent"}

SignUpPath == <<"/", "s", "i", "g", "n", "-", "u", "p">>
RolePath == <<"/", "a", "p", "i", "/", "u", "s", "e", "r", "/", "r", "o",
              "l", "e">>
UpdateRolePath == <<"/", "a", "p", "i", "/", "u", "s", "e", "r", "/", "u",
                    "p", "d", "a", "t", "e", "-", "r", "o", "l", "e">>
WebhookPath == <<"/", "a", "p", "i", "/", "w", "e", "b", "h", "o", "o", "k",
                 "s", "/", "c", "l", "e", "r", "k">>

\* the paths requested of the middleware (config.matcher covers them all)
GatePaths == Paths \cup {ProfilePath, SettingsPath, LogoutPath, SignUpPath,
                         RolePath, UpdateRolePath, WebhookPath,
                         <<"/", "A", "d", "m", "i", "n">>}

\* the session cookie of a request
Cookies == {"missing", "malformed", "expired", "valid"}

\* the callers of update-role: signed out, a student, an admin
Callers == {NoUser, [id |-> 1, role |-> "student"],
            [id |-> 1, role |-> "admin"]}

\* a request being handled: where it is, who sent it, its body
NoReq == [kind |-> "none", pc |-> "idle", caller |-> NoUser,
          uid |-> MissingId, newRole |-> "", email |-> NoEmail,
          proven |-> FALSE]

\* a response: status and body, and for a page the request it answers
NoResp == [kind |-> "none", status |-> 0, body |-> "", created |-> FALSE,
           uid |-> NoId, path |-> NoPath, cookie |-> "", served |-> NoPath]

NoMark == [uid |-> NoId, role |-> ""]

\* the session Clerk derives from the cookie: none unless the token is valid
authenticateRequest(cookie, u) == IF cookie = "valid" THEN u ELSE NoUser

\* the server while only the client is observed: empty store, nothing in flight
\* DashboardLayout is not on screen
LayoutIdle ==
  /\ dlMounted = FALSE
  /\ dlPathname = RootPath
  /\ isLoading = FALSE
  /\ lastPath = NoPath
  /\ currentRole = Null
  /\ navigation = NoPath
  /\ dlPc = "idle"

\* the controls that sign out
Controls == {"button", "menu", "interceptor"}

\* no sign-out control has been clicked
SignOutIdle ==
  /\ isLoggingOut = [c \in Controls |-> FALSE]
  /\ handled = FALSE
  /\ soTimer = [c \in Controls |-> FALSE]
  /\ soElapsed = [c \in Controls |-> -1]
  /\ soCalls = [c \in Controls |-> 0]
  /\ soEarly = [c \in Controls |-> FALSE]
  /\ soClicks = 0
  /\ soGone = FALSE

\* the components outside RouteProtector are not observed
\* localStorage holds neither item, nothing was read or written, and the
\* SignInLoader is not mounted
NoItem == [present |-> FALSE, text |-> <<>>]
StoreIdle ==
  /\ smaAuth = NoItem
  /\ showFlag = Null
  /\ lastOp = "none"
  /\ authEvents = 0
  /\ lastRead = [threw |-> FALSE, authenticated |-> FALSE, role |-> Null]
  /\ slMounted = FALSE
  /\ isVisible = FALSE
  /\ slTimers = {}
  /\ slSince = -1

UiIdle == LayoutIdle /\ SignOutIdle /\ StoreIdle

ServerIdle ==
  /\ records = <<>>
  /\ claims = [i \in Ids |-> ""]
  /\ token = [id |-> 1, role |-> ""]
  /\ reqs = EmptyBag
  /\ resp = NoResp
  /\ calls = 0
  /\ resolved = NoMark
  /\ lastUpdate = NoMark

(***************************************************************************)
(* Init: the first render has committed, no effect has run yet             *)
(***************************************************************************)
Init ==
  /\ session \in Identities \cup {NoUser}
  /\ pathname \in UNION {clerkMiddleware(p, session) : p \in Paths}
  /\ isLoaded = FALSE
  /\ userId = NoId
  /\ user = NoUser
  /\ userRole = Null
  /\ isRoleLoaded = FALSE
  /\ isAuthLoading = TRUE
  /\ qAuthLoading = <<>>
  /\ qUserRole = <<>>
  /\ qIsRoleLoaded = <<>>
  /\ deps0 = Unrun
  /\ deps1 = Unrun
  /\ deps2 = Unrun
  /\ pc = "effect0"
  /\ pendingPush = NoPath
  /\ overlayShown = AuthLoadingOverlay(TRUE)
  /\ childrenMounted = RouteProtectorRender(TRUE)
  /\ decision = NoDecision
  /\ cancelled = NoPath
  /\ ServerIdle
  /\ UiIdle

(***************************************************************************)
(* Effects.  An effect runs when its dependency array differs from the one *)
(* of its last run (always after mount); otherwise React skips it.         *)
(***************************************************************************)

\* EFFECT 0: show the loader on a protected path, hide it on a public one
Effect0 ==
  /\ pc = "effect0"
  /\ UNCHANGED <<svars, uvars>>
  /\ IF deps0 # Effect0Deps
     THEN /\ qAuthLoading' = Append(qAuthLoading, isProtectedRoute(pathname))
          /\ deps0' = Effect0Deps
     ELSE UNCHANGED <<qAuthLoading, deps0>>
  /\ pc' = "effect1"
  /\ UNCHANGED <<session, pathname, isLoaded, userId, user, userRole,
                 isRoleLoaded, isAuthLoading, qUserRole, qIsRoleLoaded,
                 deps1, deps2, pendingPush, overlayShown, childrenMounted,
                 decision, cancelled>>

\* variant: with an identity but no user object yet, the effect returns
\* without marking the role loaded
Effect1WaitForUser ==
  /\ pc = "effect1"
  /\ UNCHANGED <<svars, uvars>>
  /\ IF deps1 # Effect1Deps
     THEN /\ deps1' = Effect1Deps
          /\ IF ~isLoaded \/ (userId # NoId /\ user = NoUser)
             THEN UNCHANGED <<qUserRole, qIsRoleLoaded>>
             ELSE IF userId = NoId
             THEN /\ qIsRoleLoaded' = Append(qIsRoleLoaded, TRUE)
                  /\ qUserRole' = Append(qUserRole, Null)
             ELSE /\ qUserRole' = Append(qUserRole, getUserRoleFromClaims(user))
                  /\ qIsRoleLoaded' = Append(qIsRoleLoaded, TRUE)
     ELSE UNCHANGED <<qUserRole, qIsRoleLoaded, deps1>>
  /\ pc' = "effect2"
  /\ UNCHANGED <<session, pathname, isLoaded, userId, user, userRole,
                 isRoleLoaded, isAuthLoading, qAuthLoading, deps0, deps2,
                 pendingPush, overlayShown, childrenMounted, decision,
                 cancelled>>

\* EFFECT 1: read the role from the claims of the Clerk user object
Effect1 ==
  /\ pc = "effect1"
  /\ UNCHANGED <<svars, uvars>>
  /\ IF deps1 # Effect1Deps
     THEN /\ deps1' = Effect1Deps
          /\ IF ~isLoaded
             THEN UNCHANGED <<qUserRole, qIsRoleLoaded>>
             ELSE IF userId = NoId \/ user = NoUser
             THEN /\ qIsRoleLoaded' = Append(qIsRoleLoaded, TRUE)
                  /\ qUserRole' = Append(qUserRole, Null)
             ELSE /\ qUserRole' = Append(qUserRole, getUserRoleFromClaims(user))
                  /\ qIsRoleLoaded' = Append(qIsRoleLoaded, TRUE)
     ELSE UNCHANGED <<qUserRole, qIsRoleLoaded, deps1>>
  /\ pc' = "effect2"
  /\ UNCHANGED <<session, pathname, isLoaded, userId, user, userRole,
                 isRoleLoaded, isAuthLoading, qAuthLoading, deps0, deps2,
                 pendingPush, overlayShown, childrenMounted, decision,
                 cancelled>>

\* variant: the role of a dashboard path is not validated
Effect2OutcomeNoRoleCheck(path, loaded, roleLoaded, uid, role) ==
  IF ~loaded THEN "WAIT"
  ELSE IF isProtectedRoute(path) /\ ~roleLoaded THEN "WAIT"
  ELSE IF ~isProtectedRoute(path) THEN "PUBLIC"
  ELSE IF uid = NoId THEN "DENY"
  ELSE "ALLOW"

\* variant: the check of userId is missing
Effect2OutcomeNoAuthCheck(path, loaded, roleLoaded, uid, role) ==
  IF ~loaded THEN "WAIT"
  ELSE IF isProtectedRoute(path) /\ ~roleLoaded THEN "WAIT"
  ELSE IF ~isProtectedRoute(path) THEN "PUBLIC"
  ELSE IF /\ getDashboardRoute(path) # NoPath
          /\ \/ role = Null
             \/ role \notin DASHBOARD_ROUTES(getDashboardRoute(path))
       THEN "DENY"
  ELSE "ALLOW"

\* variant: the role is validated on every protected path
Effect2OutcomeRoleEverywhere(path, loaded, roleLoaded, uid, role) ==
  IF ~loaded THEN "WAIT"
  ELSE IF isProtectedRoute(path) /\ ~roleLoaded THEN "WAIT"
  ELSE IF ~isProtectedRoute(path) THEN "PUBLIC"
  ELSE IF uid = NoId THEN "DENY"
  ELSE IF role \notin Roles THEN "DENY"
  ELSE "ALLOW"

\* variant: userRole && !allowedRoles.includes(userRole)
Effect2OutcomeAndSlip(path, loaded, roleLoaded, uid, role) ==
  IF ~loaded THEN "WAIT"
  ELSE IF isProtectedRoute(path) /\ ~roleLoaded THEN "WAIT"
  ELSE IF ~isProtectedRoute(path) THEN "PUBLIC"
  ELSE IF uid = NoId THEN "DENY"
  ELSE IF /\ getDashboardRoute(path) # NoPath
          /\ role # Null
          /\ role \notin DASHBOARD_ROUTES(getDashboardRoute(path))
       THEN "DENY"
  ELSE "ALLOW"

\* EFFECT 2, the branch it takes for the values of the render it closes over
Effect2Outcome(path, loaded, roleLoaded, uid, role) ==
  IF ~loaded THEN "WAIT"
  ELSE IF isProtectedRoute(path) /\ ~roleLoaded THEN "WAIT"
  ELSE IF ~isProtectedRoute(path) THEN "PUBLIC"
  ELSE IF uid = NoId THEN "DENY"
  ELSE IF /\ getDashboardRoute(path) # NoPath
          /\ \/ role = Null
             \/ role \notin DASHBOARD_ROUTES(getDashboardRoute(path))
       THEN "DENY"
  ELSE "ALLOW"

\* EFFECT 2: main logic; every branch but the waiting ones hides the loader,
\* the denying ones also call router.push("/sign-in")
Effect2 ==
  /\ pc = "effect2"
  /\ UNCHANGED <<svars, uvars>>
  /\ IF deps2 # Effect2Deps
     THEN LET kind == Effect2Outcome(pathname, isLoaded, isRoleLoaded,
                                     userId, userRole)
          IN /\ deps2' = Effect2Deps
             /\ qAuthLoading' = IF kind = "WAIT" THEN qAuthLoading
                                ELSE Append(qAuthLoading, FALSE)
             /\ pendingPush' = IF kind = "DENY" THEN SignInPath
                               ELSE pendingPush
             /\ decision' = [kind |-> kind, path |-> pathname,
                             userId |-> userId, role |-> userRole,
                             redirect |-> IF kind = "DENY" THEN SignInPath
                                          ELSE NoPath]
     ELSE UNCHANGED <<deps2, qAuthLoading, pendingPush, decision>>
  /\ pc' = IF qAuthLoading' = <<>> /\ qUserRole = <<>> /\ qIsRoleLoaded = <<>>
           THEN "idle" ELSE "render"
  /\ UNCHANGED <<session, pathname, isLoaded, userId, user, userRole,
                 isRoleLoaded, isAuthLoading, qUserRole, qIsRoleLoaded,
                 deps0, deps1, overlayShown, childrenMounted, cancelled>>

\* React applies the queued updates in order and commits the next render
Render ==
  /\ pc = "render"
  /\ UNCHANGED <<svars, uvars>>
  /\ isAuthLoading' = IF qAuthLoading = <<>> THEN isAuthLoading
                      ELSE Last(qAuthLoading)
  /\ userRole' = IF qUserRole = <<>> THEN userRole ELSE Last(qUserRole)
  /\ isRoleLoaded' = IF qIsRoleLoaded = <<>> THEN isRoleLoaded
                     ELSE Last(qIsRoleLoaded)
  /\ qAuthLoading' = <<>>
  /\ qUserRole' = <<>>
  /\ qIsRoleLoaded' = <<>>
  /\ overlayShown' = AuthLoadingOverlay(isAuthLoading')
  /\ childrenMounted' = RouteProtectorRender(isAuthLoading')
  /\ pc' = "effect0"
  /\ UNCHANGED <<session, pathname, isLoaded, userId, user, deps0, deps1,
                 deps2, pendingPush, decision, cancelled>>

(***************************************************************************)
(* External events, rendered once the previous effects were flushed        *)
(***************************************************************************)
\* the pending check of a protected path that a change of path supersedes
Superseded ==
  IF decision.kind = "WAIT" /\ isProtectedRoute(decision.path)
  THEN decision.path ELSE NoPath

\* a client-side navigation (Link, router.push of the menu); the request
\* passes the middleware
Navigate(p) ==
  /\ pc = "idle"
  /\ UNCHANGED <<svars, uvars>>
  /\ pendingPush = NoPath
  /\ pathname' \in clerkMiddleware(p, session)
  /\ pathname' # pathname
  /\ cancelled' = Superseded
  /\ pc' = "effect0"
  /\ UNCHANGED <<session, isLoaded, userId, user, userRole, isRoleLoaded,
                 isAuthLoading, qAuthLoading, qUserRole, qIsRoleLoaded,
                 deps0, deps1, deps2, pendingPush, overlayShown,
                 childrenMounted, decision>>

\* the navigation started by router.push("/sign-in") completes
PushComplete ==
  /\ pc = "idle"
  /\ UNCHANGED <<svars, uvars>>
  /\ pendingPush # NoPath
  /\ pathname' = pendingPush
  /\ pendingPush' = NoPath
  /\ cancelled' = Superseded
  /\ pc' = "effect0"
  /\ UNCHANGED <<session, isLoaded, userId, user, userRole, isRoleLoaded,
                 isAuthLoading, qAuthLoading, qUserRole, qIsRoleLoaded,
                 deps0, deps1, deps2, overlayShown, childrenMounted,
                 decision>>

\* clerk-js finishes loading; the user object may arrive with it or later
ClerkLoad ==
  /\ pc = "idle"
  /\ UNCHANGED <<svars, uvars>>
  /\ ~isLoaded
  /\ isLoaded' = TRUE
  /\ userId' = session.id
  /\ user' \in {session, NoUser}
  /\ pc' = "effect0"
  /\ UNCHANGED <<session, pathname, userRole, isRoleLoaded, isAuthLoading,
                 qAuthLoading, qUserRole, qIsRoleLoaded, deps0, deps1, deps2,
                 pendingPush, overlayShown, childrenMounted, decision,
                 cancelled>>

\* the user object of the signed-in identity becomes available
UserArrives ==
  /\ pc = "idle"
  /\ UNCHANGED <<svars, uvars>>
  /\ isLoaded
  /\ userId # NoId
  /\ user = NoUser
  /\ user' = session
  /\ pc' = "effect0"
  /\ UNCHANGED <<session, pathname, isLoaded, userId, userRole, isRoleLoaded,
                 isAuthLoading, qAuthLoading, qUserRole, qIsRoleLoaded,
                 deps0, deps1, deps2, pendingPush, overlayShown,
                 childrenMounted, decision, cancelled>>

\* the user signs in on the sign-in page
SignIn(u) ==
  /\ pc = "idle"
  /\ UNCHANGED <<svars, uvars>>
  /\ isLoaded
  /\ session = NoUser
  /\ pathname = SignInPath
  /\ session' = u
  /\ userId' = u.id
  /\ user' \in {u, NoUser}
  /\ pc' = "effect0"
  /\ UNCHANGED <<pathname, isLoaded, userRole, isRoleLoaded, isAuthLoading,
                 qAuthLoading, qUserRole, qIsRoleLoaded, deps0, deps1, deps2,
                 pendingPush, overlayShown, childrenMounted, decision,
                 cancelled>>

\* the active identity is replaced by another one without a reload (a
\* session switch, or a sign-out and sign-in made in another tab)
SwitchUser(u) ==
  /\ pc = "idle"
  /\ UNCHANGED <<svars, uvars>>
  /\ isLoaded
  /\ session # NoUser
  /\ userId = session.id
  /\ u.id # session.id
  /\ session' = u
  /\ userId' = u.id
  /\ user' = u
  /\ pc' = "effect0"
  /\ UNCHANGED <<pathname, isLoaded, userRole, isRoleLoaded, isAuthLoading,
                 qAuthLoading, qUserRole, qIsRoleLoaded, deps0, deps1, deps2,
                 pendingPush, overlayShown, childrenMounted, decision,
                 cancelled>>

\* the session ends (signOut() or expiry); a loaded Clerk drops the identity
SessionEnd ==
  /\ pc = "idle"
  /\ UNCHANGED <<svars, uvars>>
  /\ session # NoUser
  /\ session' = NoUser
  /\ IF isLoaded
     THEN /\ userId' = NoId
          /\ user' = NoUser
          /\ pc' = "effect0"
     ELSE UNCHANGED <<userId, user, pc>>
  /\ UNCHANGED <<pathname, isLoaded, userRole, isRoleLoaded, isAuthLoading,
                 qAuthLoading, qUserRole, qIsRoleLoaded, deps0, deps1, deps2,
                 pendingPush, overlayShown, childrenMounted, decision,
                 cancelled>>

Next ==
  \/ Effect0
  \/ Effect1
  \/ Effect2
  \/ Render
  \/ \E p \in Paths : Navigate(p)
  \/ PushComplete
  \/ ClerkLoad
  \/ UserArrives
  \/ \E u \in Identities : SignIn(u)
  \/ \E u \in Identities : SwitchUser(u)
  \/ SessionEnd

Spec == Init /\ [][Next]_vars

TypeOK ==
  /\ session \in Identities \cup {NoUser}
  /\ pathname \in Paths
  /\ isLoaded \in BOOLEAN
  /\ userId \in 0..MaxUsers
  /\ user \in Identities \cup {NoUser}
  /\ userRole \in ClaimRoles \cup {Null}
  /\ isRoleLoaded \in BOOLEAN
  /\ isAuthLoading \in BOOLEAN
  /\ pc \in {"effect0", "effect1", "effect2", "render", "idle"}
  /\ pendingPush \in {NoPath, SignInPath}
  /\ decision.kind \in {"NONE", "WAIT", "PUBLIC", "ALLOW", "DENY"}

(***************************************************************************)
(* Fairness: React always flushes the pending effects and renders the      *)
(* queued updates; nothing is assumed of the user or of Clerk.             *)
(***************************************************************************)
Flush == Effect0 \/ Effect1 \/ Effect2 \/ Render

LiveSpec == Init /\ [][Next]_vars /\ WF_vars(Flush)

(***************************************************************************)
(* Server side.  A handler runs synchronously up to its first await; every *)
(* awaited call of the store or of Clerk is a step, and it may throw.      *)
(***************************************************************************)

\* POST /api/user/role: reply of the synchronous checks, 0 = passed
RoleCheck(method, uid) ==
  IF method # "POST" THEN 405
  ELSE IF uid = MissingId \/ uid = NonStringId THEN 400
  ELSE 0

\* variant: newRole is not validated
UpdateRoleCheckAnyRole(method, uid, newRole) ==
  IF method # "POST" THEN 405
  ELSE IF uid = MissingId \/ uid = NonStringId THEN 400
  ELSE 0

\* POST /api/user/update-role: reply of the synchronous checks, 0 = passed
UpdateRoleCheck(method, uid, newRole) ==
  IF method # "POST" THEN 405
  ELSE IF uid = MissingId \/ uid = NonStringId THEN 400
  ELSE IF newRole = "" \/ newRole \notin ValidRoles THEN 400
  ELSE 0

\* variant: the signature is not verified
WebhookCheckUnverified(hdr, sig, evt, email) ==
  IF ~hdr THEN 400
  ELSE IF evt = "user.created" THEN (IF email = NoEmail THEN 400 ELSE 0)
  ELSE IF evt = "user.updated" THEN (IF email = NoEmail THEN 200 ELSE 0)
  ELSE IF evt = "user.deleted" THEN 0
  ELSE 200

\* webhook: svix headers, signature, then what is decided before any write
\* (200 = nothing to do for this event)
WebhookCheck(hdr, sig, evt, email) ==
  IF ~hdr THEN 400
  ELSE IF ~sig THEN 400
  ELSE IF evt = "user.created" THEN (IF email = NoEmail THEN 400 ELSE 0)
  ELSE IF evt = "user.updated" THEN (IF email = NoEmail THEN 200 ELSE 0)
  ELSE IF evt = "user.deleted" THEN 0
  ELSE 200

\* the text sent with a reply of the webhook's checks
WebhookText(hdr, sig) ==
  IF ~hdr THEN "Error occured -- no svix headers"
  ELSE IF ~sig THEN "Error occured"
  ELSE ""

\* first awaited call of the webhook for an event
WebhookFirst(evt) ==
  IF evt = "user.created" THEN "create"
  ELSE IF evt = "user.updated" THEN "update"
  ELSE "delete"

\* variant: the created row comes back without its role
RoleResponseStale(row, created) == IF created THEN "" ELSE row.role

\* the role a role request answers with: user.role of the row it holds
RoleResponse(row, created) == row.role

\* what a request body carries as newRole: nothing, a role, another string
BodyRoles == {"", "teacher", "admin", "guest"}

\* the bodies of the requests that are sent
RoleBodies ==
  {[method |-> "GET", uid |-> 1]}
    \cup [method : {"POST"}, uid : BodyIds]

UpdateBodies ==
  {[method |-> "GET", uid |-> 1, newRole |-> "admin"]}
    \cup [method : {"POST"}, uid : {MissingId, NonStringId},
          newRole : {"admin"}]
    \cup [method : {"POST"}, uid : Ids, newRole : BodyRoles]

Events == {"user.created", "user.updated", "user.deleted"}

WebhookBodies ==
  [hdr : {FALSE}, sig : {TRUE}, evt : Events, uid : Ids, email : {Email}]
    \cup [hdr : {TRUE}, sig : {FALSE}, evt : Events, uid : Ids,
          email : {Email}]
    \cup [hdr : {TRUE}, sig : {TRUE}, evt : {"user.created", "user.updated"},
          uid : Ids, email : {NoEmail, Email}]
    \cup [hdr : {TRUE}, sig : {TRUE}, evt : {"user.deleted"}, uid : Ids,
          email : {NoEmail}]
    \cup [hdr : {TRUE}, sig : {TRUE}, evt : {"session.created"}, uid : {1},
          email : {NoEmail}]

Reply(kind, status, body) ==
  [NoResp EXCEPT !.kind = kind, !.status = status, !.body = body]

\* the request r is being handled by its handler, at the await `at`
InFlight(r, kind, at) == BagIn(r, reqs) /\ r.kind = kind /\ r.pc = at

\* the handler of r goes on to its next await as r2 / returns
Continue(r, r2) == (reqs (-) SetToBag({r})) (+) SetToBag({r2})
Return(r) == reqs (-) SetToBag({r})

\* a mark is dropped when the role it recorded is overwritten or deleted
Drop(mark, uid) == IF mark.uid = uid THEN NoMark ELSE mark

\* a request of the API arrives: it passes the middleware, then the handler
\* runs up to its first await (st = status of an immediate reply, 0 = none)
Receive(path, r, st, text) ==
  /\ calls < MaxCalls
  /\ BagCardinality(reqs) < MaxReqs
  /\ calls' = calls + 1
  /\ \E served \in clerkMiddleware(path, r.caller) :
       IF served # path
       THEN /\ resp' = [Reply(r.kind, 307, "")
                          EXCEPT !.path = path, !.served = served]
            /\ UNCHANGED reqs
       ELSE IF st # 0
       THEN /\ resp' = Reply(r.kind, st, text)
            /\ UNCHANGED reqs
       ELSE /\ reqs' = reqs (+) SetToBag({r})
            /\ UNCHANGED resp
  /\ UNCHANGED <<records, claims, token, resolved, lastUpdate>>
  /\ UNCHANGED <<vars, uvars>>

\* a page or route is requested with some session cookie
PageRequest(p, cookie, u) ==
  /\ calls < MaxCalls
  /\ calls' = calls + 1
  /\ \E served \in clerkMiddleware(p, authenticateRequest(cookie, u)) :
       resp' = [NoResp EXCEPT !.kind = "page",
                              !.status = IF served = p THEN 200 ELSE 307,
                              !.uid = u.id, !.path = p, !.cookie = cookie,
                              !.served = served]
  /\ UNCHANGED <<records, claims, token, reqs, resolved, lastUpdate>>
  /\ UNCHANGED <<vars, uvars>>

StartRole(b) ==
  /\ b \in RoleBodies
  /\ Receive(RolePath,
             [NoReq EXCEPT !.kind = "role", !.pc = "find", !.uid = b.uid],
             RoleCheck(b.method, b.uid),
             IF b.method # "POST" THEN "Method not allowed"
             ELSE "User ID is required")

\* let user = await prisma.user.findUnique(...)
RoleFind(r) ==
  /\ InFlight(r, "role", "find")
  /\ IF r.uid \in DOMAIN records
     THEN /\ resp' = Reply("role", 200, RoleResponse(records[r.uid], FALSE))
          /\ resolved' = [uid |-> r.uid, role |-> resp'.body]
          /\ reqs' = Return(r)
     ELSE /\ reqs' = Continue(r, [r EXCEPT !.pc = "create"])
          /\ UNCHANGED <<resp, resolved>>
  /\ UNCHANGED <<records, claims, token, calls, lastUpdate>>
  /\ UNCHANGED <<vars, uvars>>

\* user = await prisma.user.create(...): the id is unique in the store
RoleCreate(r) ==
  /\ InFlight(r, "role", "create")
  /\ LET row == [role |-> DefaultRole, email |-> NoEmail] IN
       IF r.uid \in DOMAIN records
       THEN /\ resp' = Reply("role", 500, "Internal server error")
            /\ UNCHANGED <<records, resolved>>
       ELSE /\ records' = records @@ (r.uid :> row)
            /\ resp' = [Reply("role", 200, RoleResponse(row, TRUE))
                          EXCEPT !.created = TRUE]
            /\ resolved' = [uid |-> r.uid, role |-> resp'.body]
  /\ reqs' = Return(r)
  /\ UNCHANGED <<claims, token, calls, lastUpdate>>
  /\ UNCHANGED <<vars, uvars>>

StartUpdate(caller, b) ==
  /\ caller \in Callers
  /\ Receive(UpdateRolePath,
             [NoReq EXCEPT !.kind = "update", !.pc = "db", !.caller = caller,
                           !.uid = b.uid, !.newRole = b.newRole],
             UpdateRoleCheck(b.method, b.uid, b.newRole),
             IF b.method # "POST" THEN "Method not allowed"
             ELSE IF b.uid \notin Ids THEN "User ID is required"
             ELSE "Valid role is required")

\* await prisma.user.update(...): throws when the row does not exist
UpdateDb(r) ==
  /\ InFlight(r, "update", "db")
  /\ IF r.uid \in DOMAIN records
     THEN /\ records' = [records EXCEPT ![r.uid].role = r.newRole]
          /\ reqs' = Continue(r, [r EXCEPT !.pc = "clerk"])
          /\ resolved' = Drop(resolved, r.uid)
          /\ UNCHANGED resp
     ELSE /\ resp' = Reply("update", 500, "Internal server error")
          /\ reqs' = Return(r)
          /\ UNCHANGED <<records, resolved>>
  /\ UNCHANGED <<claims, token, calls, lastUpdate>>
  /\ UNCHANGED <<vars, uvars>>

\* variant: 200 without the write to the claims
UpdateClerkNoMirror(r) ==
  /\ InFlight(r, "update", "clerk")
  /\ lastUpdate' = [uid |-> r.uid, role |-> r.newRole]
  /\ resp' = Reply("update", 200, r.newRole)
  /\ reqs' = Return(r)
  /\ UNCHANGED <<records, claims, token, calls, resolved>>
  /\ UNCHANGED <<vars, uvars>>

\* await users.updateUserMetadata(...), then 200 with updatedUser.role
UpdateClerk(r) ==
  /\ InFlight(r, "update", "clerk")
  /\ claims' = [claims EXCEPT ![r.uid] = r.newRole]
  /\ lastUpdate' = [uid |-> r.uid, role |-> r.newRole]
  /\ resp' = Reply("update", 200, r.newRole)
  /\ reqs' = Return(r)
  /\ UNCHANGED <<records, token, calls, resolved>>
  /\ UNCHANGED <<vars, uvars>>

StartWebhook(b) ==
  /\ b \in WebhookBodies
  /\ Receive(WebhookPath,
             [NoReq EXCEPT !.kind = "webhook", !.pc = WebhookFirst(b.evt),
                           !.uid = b.uid, !.email = b.email,
                           !.proven = b.hdr /\ b.sig],
             WebhookCheck(b.hdr, b.sig, b.evt, b.email),
             IF ~(b.hdr /\ b.sig) THEN WebhookText(b.hdr, b.sig)
             ELSE IF b.evt = "user.created" THEN "Email not found"
             ELSE "Webhook processed")

\* user.created: const newUser = await prisma.user.create(...)
WhCreate(r) ==
  /\ InFlight(r, "webhook", "create")
  /\ IF r.uid \in DOMAIN records
     THEN /\ resp' = Reply("webhook", 500, "Error processing webhook")
          /\ reqs' = Return(r)
          /\ UNCHANGED records
     ELSE /\ records' = records @@
               (r.uid :> [role |-> DefaultRole, email |-> r.email])
          /\ reqs' = Continue(r, [r EXCEPT !.pc = "mirror"])
          /\ UNCHANGED resp
  /\ UNCHANGED <<claims, token, calls, resolved, lastUpdate>>
  /\ UNCHANGED <<vars, uvars>>

\* user.created: await updateUserMetadata(id, {role: newUser.role}), then 200
WhMirror(r) ==
  /\ InFlight(r, "webhook", "mirror")
  /\ claims' = [claims EXCEPT ![r.uid] = DefaultRole]
  /\ lastUpdate' = Drop(lastUpdate, r.uid)
  /\ resp' = Reply("webhook", 200, "Webhook processed")
  /\ reqs' = Return(r)
  /\ UNCHANGED <<records, token, calls, resolved>>
  /\ UNCHANGED <<vars, uvars>>

\* variant: the update rewrites the whole row, the role included
WhUpdateWholeRow(r) ==
  /\ InFlight(r, "webhook", "update")
  /\ IF r.uid \in DOMAIN records
     THEN /\ records' = [records EXCEPT
                           ![r.uid] = [role |-> DefaultRole, email |-> r.email]]
          /\ resp' = Reply("webhook", 200, "Webhook processed")
     ELSE /\ resp' = Reply("webhook", 500, "Error processing webhook")
          /\ UNCHANGED records
  /\ reqs' = Return(r)
  /\ UNCHANGED <<claims, token, calls, resolved, lastUpdate>>
  /\ UNCHANGED <<vars, uvars>>

\* user.updated: await prisma.user.update({data: {email}}), then 200
WhUpdate(r) ==
  /\ InFlight(r, "webhook", "update")
  /\ IF r.uid \in DOMAIN records
     THEN /\ records' = [records EXCEPT ![r.uid].email = r.email]
          /\ resp' = Reply("webhook", 200, "Webhook processed")
     ELSE /\ resp' = Reply("webhook", 500, "Error processing webhook")
          /\ UNCHANGED records
  /\ reqs' = Return(r)
  /\ UNCHANGED <<claims, token, calls, resolved, lastUpdate>>
  /\ UNCHANGED <<vars, uvars>>

\* user.deleted: await prisma.user.delete(...), then 200
WhDelete(r) ==
  /\ InFlight(r, "webhook", "delete")
  /\ IF r.uid \in DOMAIN records
     THEN /\ records' = [i \in DOMAIN records \ {r.uid} |-> records[i]]
          /\ resolved' = Drop(resolved, r.uid)
          /\ resp' = Reply("webhook", 200, "Webhook processed")
     ELSE /\ resp' = Reply("webhook", 500, "Error processing webhook")
          /\ UNCHANGED <<records, resolved>>
  /\ reqs' = Return(r)
  /\ UNCHANGED <<claims, token, calls, lastUpdate>>
  /\ UNCHANGED <<vars, uvars>>

\* the awaited call throws (store or Clerk unreachable): catch, 500
Throws(r) ==
  /\ BagIn(r, reqs)
  /\ resp' = Reply(r.kind, 500,
                   IF r.kind = "webhook" THEN "Error processing webhook"
                   ELSE "Internal server error")
  /\ reqs' = Return(r)
  /\ UNCHANGED <<records, claims, token, calls, resolved, lastUpdate>>
  /\ UNCHANGED <<vars, uvars>>

\* the client's session token expires and is reissued with the current claims
RefreshToken ==
  /\ token.role # claims[token.id]
  /\ token' = [token EXCEPT !.role = claims[token.id]]
  /\ UNCHANGED <<records, claims, reqs, resp, calls, resolved, lastUpdate>>
  /\ UNCHANGED <<vars, uvars>>

\* the client is not observed: first render committed, signed out
ClientIdle ==
  /\ session = NoUser
  /\ pathname = RootPath
  /\ isLoaded = FALSE
  /\ userId = NoId
  /\ user = NoUser
  /\ userRole = Null
  /\ isRoleLoaded = FALSE
  /\ isAuthLoading = TRUE
  /\ qAuthLoading = <<>>
  /\ qUserRole = <<>>
  /\ qIsRoleLoaded = <<>>
  /\ deps0 = Unrun
  /\ deps1 = Unrun
  /\ deps2 = Unrun
  /\ pc = "effect0"
  /\ pendingPush = NoPath
  /\ overlayShown = AuthLoadingOverlay(TRUE)
  /\ childrenMounted = RouteProtectorRender(TRUE)
  /\ decision = NoDecision
  /\ cancelled = NoPath

\* identities with a record have the role of the record in their claims,
\* those without one have no role in their claims
ApiInit ==
  /\ ClientIdle
  /\ UiIdle
  /\ records \in UNION {[S -> [role : {DefaultRole}, email : {Email}]] :
                          S \in SUBSET Ids}
  /\ claims = [i \in Ids |-> IF i \in DOMAIN records THEN records[i].role
                             ELSE ""]
  /\ token = [id |-> 1, role |-> claims[1]]
  /\ reqs = EmptyBag
  /\ resp = NoResp
  /\ calls = 0
  /\ resolved = NoMark
  /\ lastUpdate = NoMark

\* the requests a handler can be in the middle of
RoleReqs(at) ==
  {[NoReq EXCEPT !.kind = "role", !.pc = at, !.uid = u] : u \in Ids}

UpdateReqs(at) ==
  {[NoReq EXCEPT !.kind = "update", !.pc = at, !.caller = c, !.uid = u,
                 !.newRole = nr] :
     c \in Callers, u \in Ids, nr \in BodyRoles \cap ValidRoles}

WebhookReqs(at) ==
  {[NoReq EXCEPT !.kind = "webhook", !.pc = at, !.uid = u, !.email = e,
                 !.proven = TRUE] :
     u \in Ids, e \in {NoEmail, Email}}

Requests ==
  RoleReqs("find") \cup RoleReqs("create")
    \cup UpdateReqs("db") \cup UpdateReqs("clerk")
    \cup WebhookReqs("create") \cup WebhookReqs("mirror")
    \cup WebhookReqs("update") \cup WebhookReqs("delete")

ApiNext ==
  \/ \E b \in RoleBodies : StartRole(b)
  \/ \E r \in RoleReqs("find") : RoleFind(r)
  \/ \E r \in RoleReqs("create") : RoleCreate(r)
  \/ \E c \in Callers, b \in UpdateBodies : StartUpdate(c, b)
  \/ \E r \in UpdateReqs("db") : UpdateDb(r)
  \/ \E r \in UpdateReqs("clerk") : UpdateClerk(r)
  \/ \E b \in WebhookBodies : StartWebhook(b)
  \/ \E r \in WebhookReqs("create") : WhCreate(r)
  \/ \E r \in WebhookReqs("mirror") : WhMirror(r)
  \/ \E r \in WebhookReqs("update") : WhUpdate(r)
  \/ \E r \in WebhookReqs("delete") : WhDelete(r)
  \/ \E r \in Requests : Throws(r)
  \/ RefreshToken

ApiSpec == ApiInit /\ [][ApiNext]_allvars

\* the middleware alone: requests of every path with every kind of cookie
GateInit ==
  /\ ClientIdle
  /\ ServerIdle
  /\ UiIdle

GateNext ==
  \E p \in GatePaths, cookie \in Cookies, u \in Identities :
    PageRequest(p, cookie, u)

GateSpec == GateInit /\ [][GateNext]_allvars

(***************************************************************************)
(* Vocabulary of the properties                                            *)
(***************************************************************************)
Terminal == {"PUBLIC", "ALLOW", "DENY"}

IsDashboardPath(p) == getDashboardRoute(p) # NoPath

\* an identity is signed in and, on a dashboard path, the role in its claims
\* is in the allowed set of the path
Entitled(p) ==
  /\ session # NoUser
  /\ IsDashboardPath(p) =>
       getUserRoleFromClaims(session) \in DASHBOARD_ROUTES(getDashboardRoute(p))

\* the value the Loading Flag takes from the check that produced d
FlagOf(d) == d.kind = "WAIT" /\ isProtectedRoute(d.path)

(***************************************************************************)
(* C1: protected content of the current path is visible (children mounted, *)
(* loader off) only if an identity is present and, on a dashboard path,    *)
(* its role is in the allowed set of the path.                             *)
(***************************************************************************)
C1_NoUnauthorizedContent ==
  (ContentVisible /\ isProtectedRoute(pathname)) => Entitled(pathname)

(***************************************************************************)
(* C2: whenever the current path is protected and its check is pending     *)
(* (Clerk not loaded, or the role not loaded), the Loading Flag is true.   *)
(***************************************************************************)
C2_PendingImpliesLoading ==
  (isProtectedRoute(pathname) /\ (~isLoaded \/ ~isRoleLoaded)) => isAuthLoading

(***************************************************************************)
(* C3: for an identity with a role of Roles on a dashboard path or one of  *)
(* its sub-paths, once Clerk and the role are loaded the decision is ALLOW *)
(* (flag false, no redirect) iff the role is in DASHBOARD_ROUTES of the    *)
(* path, and DENY (redirect to /sign-in) otherwise.                        *)
(***************************************************************************)
C3_RoleMatrix ==
  /\ (/\ decision.kind \in Terminal
      /\ IsDashboardPath(decision.path)
      /\ decision.userId # NoId
      /\ decision.role \in Roles)
     => IF decision.role \in DASHBOARD_ROUTES(getDashboardRoute(decision.path))
        THEN decision.kind = "ALLOW" /\ decision.redirect = NoPath
        ELSE decision.kind = "DENY" /\ decision.redirect = SignInPath
  /\ (/\ pc = "idle"
      /\ isLoaded
      /\ isRoleLoaded
      /\ IsDashboardPath(pathname)
      /\ userId # NoId
      /\ userRole \in Roles)
     => /\ decision.kind \in {"ALLOW", "DENY"}
        /\ decision.path = pathname
        /\ decision.userId = userId
        /\ decision.role = userRole
        /\ ~isAuthLoading

C3_Witness ==
  /\ pc = "idle"
  /\ decision.kind = "ALLOW"
  /\ decision.path = AdminSubPath
  /\ decision.role = "admin"
  /\ pathname = AdminSubPath
  /\ ~isAuthLoading
  /\ pendingPush = NoPath

(***************************************************************************)
(* C4: on a protected path, once Clerk has loaded with no identity the     *)
(* result is DENY: a redirect to /sign-in is issued, the Loading Flag ends *)
(* false, and no ALLOW is ever decided without an identity.                *)
(***************************************************************************)
C4_NoIdentityDenied ==
  /\ decision.kind = "ALLOW" => decision.userId # NoId
  /\ (/\ pc = "idle"
      /\ isLoaded
      /\ userId = NoId
      /\ isProtectedRoute(pathname))
     => /\ decision.kind = "DENY"
        /\ decision.path = pathname
        /\ decision.userId = NoId
        /\ decision.redirect = SignInPath
        /\ pendingPush = SignInPath
        /\ ~isAuthLoading

C4_Witness ==
  /\ pc = "idle"
  /\ isLoaded
  /\ userId = NoId
  /\ isProtectedRoute(pathname)
  /\ decision.kind = "DENY"
  /\ pendingPush = SignInPath

(***************************************************************************)
(* C5: on a DENY (no identity, or the role in the claims of the identity   *)
(* is not allowed) the denied page is never uncovered: there is no state   *)
(* in which the loader is off while the current path is still the          *)
(* protected path that was denied.                                         *)
(***************************************************************************)
C5_DeniedNeverUncovered ==
  ~(/\ decision.kind = "DENY"
    /\ decision.path = pathname
    /\ decision.userId = userId
    /\ user = session
    /\ decision.role = getUserRoleFromClaims(user)
    /\ isProtectedRoute(pathname)
    /\ ContentVisible)

C7_StateInv ==
  pc = "idle" =>
    /\ decision.path = pathname
    /\ isAuthLoading = FlagOf(decision)

C7_FlagStep ==
  isAuthLoading' # isAuthLoading =>
    /\ decision.path = pathname
    /\ isAuthLoading' = FlagOf(decision)

C7_PushStep ==
  (pendingPush' # NoPath /\ pendingPush = NoPath) =>
    /\ decision'.kind = "DENY"
    /\ decision'.path = pathname
    /\ pathname' = pathname

C7_OnlyCurrentCheckWrites ==
  /\ []C7_StateInv
  /\ [][C7_FlagStep]_vars
  /\ [][C7_PushStep]_vars

C7_Witness ==
  /\ pc = "idle"
  /\ cancelled = AdminPath
  /\ pathname = StudentPath
  /\ decision.kind \in {"ALLOW", "DENY"}
  /\ decision.path = StudentPath
  /\ ~isAuthLoading

C8_DashInv ==
  (/\ decision.kind \in Terminal
   /\ decision.role = Null
   /\ IsDashboardPath(decision.path))
  => /\ decision.kind = "DENY"
     /\ decision.redirect = SignInPath

C8_FirstRunDenies ==
  (/\ pc = "effect2"
   /\ deps2 # Effect2Deps
   /\ isLoaded
   /\ isRoleLoaded
   /\ userRole = Null
   /\ IsDashboardPath(pathname))
  => /\ decision'.kind = "DENY"
     /\ decision'.path = pathname
     /\ pendingPush' = SignInPath
     /\ qAuthLoading' = Append(qAuthLoading, FALSE)

C9_Settled ==
  /\ pc = "idle"
  /\ decision.kind \in Terminal
  /\ decision.path = pathname
  /\ ~isAuthLoading

C9_EventuallyDecided == isLoaded ~> C9_Settled

C9_Witness ==
  /\ C9_Settled
  /\ isLoaded
  /\ pathname = ListPath
  /\ decision.kind = "ALLOW"

(***************************************************************************)
(* C10: whenever the current path is public the Loading Flag is false, and *)
(* RouteProtector issues no redirect for a public path.                    *)
(***************************************************************************)
C10_PublicNeverLoading ==
  /\ ~isProtectedRoute(pathname) => ~isAuthLoading
  /\ ~isProtectedRoute(decision.path) => decision.redirect = NoPath

\* the decision of effect 2 for identity u on path p once Clerk and the role
\* are loaded, the claims of the user object carrying `role`
CheckFor(u, role, p) ==
  Effect2Outcome(p, TRUE, TRUE, u,
                 getUserRoleFromClaims([id |-> u, role |-> role]))

\* the protected paths decisions are compared on
ProtectedPaths == {p \in Paths \cup GatePaths : isProtectedRoute(p)}

(***************************************************************************)
(* C11.  The middleware never lets a request for a protected prefix        *)
(* continue when the caller has no valid session: a missing, malformed or  *)
(* expired token is answered with the redirect to sign-in; a request for a *)
(* route that is not protected passes whatever the cookie is.              *)
(***************************************************************************)
C11_GateNeverAdmits ==
  resp.kind = "page" =>
    /\ MwIsProtectedRoute(resp.path) /\ resp.cookie # "valid"
         => resp.status = 307 /\ resp.served = SignInPath
    /\ ~MwIsProtectedRoute(resp.path)
         => resp.status = 200 /\ resp.served = resp.path

(***************************************************************************)
(* C12.  Resolving the role of the same identity twice through             *)
(* POST /api/user/role, with no write to its record in between, returns    *)
(* the same role both times, also when the first call created the record.  *)
(***************************************************************************)
\* r returns 200 in this step
RoleReturns(r) ==
  /\ r.kind = "role"
  /\ BagIn(r, reqs)
  /\ reqs' = Return(r)
  /\ resp'.kind = "role"
  /\ resp'.status = 200

C12_SameRoleStep ==
  \A r \in RoleReqs("find") \cup RoleReqs("create") :
    RoleReturns(r) /\ resolved.uid = r.uid => resp'.body = resolved.role

C13_ProvisionedStudent ==
  /\ resp.kind = "role" /\ resp.status = 200 /\ resp.created
  /\ resolved.uid \in DOMAIN records
  =>
  /\ resp.body = "student"
  /\ records[resolved.uid].role = "student"
  /\ CheckFor(resolved.uid, claims[resolved.uid], StudentPath) = "ALLOW"
  /\ CheckFor(resolved.uid, claims[resolved.uid], AdminPath) = "DENY"

(***************************************************************************)
(* C14.  First-touch provisioning mirrors the default role to the claims:  *)
(* when the role request that created the record returns, the claims role  *)
(* of the identity equals the role of its new record.                      *)
(***************************************************************************)
C14_MirrorStep ==
  \A r \in RoleReqs("create") :
    RoleReturns(r) /\ resp'.created
      => claims'[r.uid] = records'[r.uid].role

C14_ProvisioningMirrors == [][C14_MirrorStep]_allvars

(***************************************************************************)
(* C15.  For every identity with a record and every protected path the     *)
(* decision taken with the role of the claims equals the decision taken    *)
(* with the role of the record, whenever no request is being handled.      *)
(***************************************************************************)
C15_FastEqualsSlow ==
  reqs = EmptyBag =>
    \A u \in DOMAIN records : \A p \in ProtectedPaths :
      CheckFor(u, claims[u], p) = CheckFor(u, records[u].role, p)

(***************************************************************************)
(* C16.  A role update writes record and claims as one operation: when an  *)
(* update-role request that has written the record returns, with success   *)
(* or failure, the record role and the claims role of that identity are    *)
(* equal (nothing of the request is left to retry the mirror afterwards).  *)
(***************************************************************************)
C16_ReturnStep ==
  \A r \in UpdateReqs("clerk") :
    /\ BagIn(r, reqs)
    /\ reqs' = Return(r)
    /\ r.uid \in DOMAIN records'
    => records'[r.uid].role = claims'[r.uid]

C16_RecordAndMirrorTogether == [][C16_ReturnStep]_allvars

(***************************************************************************)
(* C17.  After a successful role update the claims hold the new role, so   *)
(* once the client's token is refreshed every check uses it (teacher:      *)
(* /teacher ALLOW, /student DENY), and the token never goes back to the    *)
(* old role while that update is the last one.                             *)
(***************************************************************************)
C17_ClaimsHoldUpdate ==
  lastUpdate.uid # NoId => claims[lastUpdate.uid] = lastUpdate.role

C17_RefreshStep ==
  token' # token /\ lastUpdate.uid = token.id
    => /\ token'.role = lastUpdate.role
       /\ lastUpdate.role = "teacher"
            => /\ CheckFor(token.id, token'.role, TeacherPath) = "ALLOW"
               /\ CheckFor(token.id, token'.role, StudentPath) = "DENY"

C17_NoReturnToOld ==
  /\ lastUpdate.uid = token.id
  /\ token.role = lastUpdate.role
  /\ lastUpdate' = lastUpdate
  => token'.role = token.role

Privileged(caller) == caller # NoUser /\ caller.role = "admin"

C18_UnprivilegedStep ==
  \A r \in UpdateReqs("db") \cup UpdateReqs("clerk") :
    (UpdateDb(r) \/ UpdateClerk(r)) /\ ~Privileged(r.caller)
      => UNCHANGED <<records, claims>>

C18_OnlyPrivilegedUpdate == [][C18_UnprivilegedStep]_allvars

(***************************************************************************)
(* C19.  update-role rejects bad requests without side effects: 405 for a  *)
(* method other than POST, 400 for a missing or non-string userId, 400 for *)
(* a newRole outside the four roles; a rejected request writes neither the *)
(* record nor the claims, and every stored role is one of the four roles.  *)
(***************************************************************************)
Methods == {"GET", "POST", "PUT", "DELETE"}

C19_Checks ==
  \A m \in Methods, u \in BodyIds, nr \in ClaimRoles :
    /\ m # "POST" => UpdateRoleCheck(m, u, nr) = 405
    /\ m = "POST" /\ u \notin Ids => UpdateRoleCheck(m, u, nr) = 400
    /\ m = "POST" /\ u \in Ids /\ nr \notin Roles
         => UpdateRoleCheck(m, u, nr) = 400
    /\ m = "POST" /\ u \in Ids /\ nr \in Roles
         => UpdateRoleCheck(m, u, nr) = 0

C19_StoredRoles ==
  /\ \A u \in DOMAIN records : records[u].role \in Roles
  /\ \A u \in Ids : claims[u] \in Roles \cup {""}
  /\ \A r \in BagToSet(reqs) :
       r.kind = "update" => r.uid \in Ids /\ r.newRole \in Roles

C19_RejectStep ==
  /\ resp' # resp
  /\ resp'.kind = "update"
  /\ resp'.status \in {400, 405}
  => UNCHANGED <<records, claims, reqs>>

C19_RejectsWithoutWrites ==
  /\ [](C19_Checks /\ C19_StoredRoles)
  /\ [][C19_RejectStep]_allvars

\* a request with a role outside the four was answered 400
C19_Witness ==
  /\ resp.kind = "update"
  /\ resp.status = 400
  /\ resp.body = "Valid role is required"

(***************************************************************************)
(* C20.  The webhook changes no state unless the request is proven to come *)
(* from Clerk: with a svix header missing or a signature that does not     *)
(* verify it answers 400 and creates, updates or deletes no record and     *)
(* writes no claims.                                                       *)
(***************************************************************************)
C20_Checks ==
  \A hdr \in BOOLEAN, sig \in BOOLEAN,
     evt \in Events \cup {"session.created"}, e \in {NoEmail, Email} :
    ~(hdr /\ sig) => WebhookCheck(hdr, sig, evt, e) = 400

C20_OnlyProven ==
  \A r \in BagToSet(reqs) : r.kind = "webhook" => r.proven

C20_RejectStep ==
  /\ resp' # resp
  /\ resp'.kind = "webhook"
  /\ resp'.body \in {WebhookText(FALSE, TRUE), WebhookText(TRUE, FALSE)}
  => /\ resp'.status = 400
     /\ UNCHANGED <<records, claims, reqs>>

C20_UnprovenChangesNothing ==
  /\ [](C20_Checks /\ C20_OnlyProven)
  /\ [][C20_RejectStep]_allvars

\* a request whose signature does not verify was answered 400
C20_Witness ==
  /\ resp.kind = "webhook"
  /\ resp.status = 400
  /\ resp.body = WebhookText(TRUE, FALSE)

(***************************************************************************)
(* C21.  A verified user.created notification for an identity with an      *)
(* e-mail address creates its record with role student and mirrors student *)
(* to its claims: when the handler returns 200, the record role and the    *)
(* claims role of that identity are both student.                          *)
(***************************************************************************)
C21_CreatedStep ==
  \A r \in WebhookReqs("mirror") :
    WhMirror(r) =>
      /\ r.uid \in DOMAIN records'
      /\ records'[r.uid].role = "student"
      /\ claims'[r.uid] = "student"

C21_CreatedIsStudent == [][C21_CreatedStep]_allvars

(***************************************************************************)
(* C22.  A signed-in user who opens a dashboard that their role is not     *)
(* allowed on is redirected, once, to the dashboard of their own role (a   *)
(* student on /admin to /student, a teacher on /admin to /teacher).        *)
(***************************************************************************)
\* the dashboard of a role
OwnDashboard(role) ==
  IF role = "admin" THEN AdminPath
  ELSE IF role = "teacher" THEN TeacherPath
  ELSE IF role = "student" THEN StudentPath
  ELSE ParentPath

C22_RedirectToOwnDashboard ==
  /\ decision.kind = "DENY"
  /\ decision.userId # NoId
  /\ decision.userId = userId
  /\ user = session
  /\ decision.role \in Roles
  /\ IsDashboardPath(decision.path)
  =>
  /\ decision.redirect = OwnDashboard(decision.role)
  /\ pendingPush \in {NoPath, OwnDashboard(decision.role)}

(***************************************************************************)
(* C23: whatever the Clerk user object and its claims hold (no object, no  *)
(* role, a role that is not one of the four), the effects of               *)
(* RouteProtector come to rest, once Clerk has loaded, with a terminal     *)
(* decision for the current path; every failure on a dashboard path        *)
(* (no identity, no role, unknown role) is a DENY, and every DENY carries  *)
(* the redirect to /sign-in.                                               *)
(***************************************************************************)
C23_FailuresEndInDeny ==
  /\ (pc = "idle" /\ isLoaded)
     => /\ decision.kind \in Terminal
        /\ decision.path = pathname
        /\ ~isAuthLoading
  /\ (pc = "idle" /\ isLoaded /\ isProtectedRoute(pathname))
     => decision.kind \in {"ALLOW", "DENY"}
  /\ decision.kind = "DENY"
     => /\ decision.redirect = SignInPath
        /\ (pc = "idle" /\ decision.path = pathname)
             => pendingPush = SignInPath
  /\ decision.kind = "ALLOW" => decision.redirect = NoPath
  /\ (/\ decision.kind \in Terminal
      /\ IsDashboardPath(decision.path)
      /\ (decision.userId = NoId \/ decision.role \notin Roles))
     => decision.kind = "DENY"

C23_Witness ==
  /\ pc = "idle"
  /\ isLoaded
  /\ user # NoUser
  /\ user.role = "guest"
  /\ pathname = AdminSubPath
  /\ decision.kind = "DENY"
  /\ decision.path = pathname
  /\ decision.role = "guest"
  /\ pendingPush = SignInPath
  /\ ~isAuthLoading

(***************************************************************************)
(* C24: getDashboardRoute(p) returns the dashboard route D exactly when    *)
(* p = D or p starts with D + "/", and null when no route does; at most    *)
(* one dashboard route matches a path.                                     *)
(***************************************************************************)
\* paths given to getDashboardRoute: p, its neighbours with and without a
\* slash, a dashboard key below it, p cut by one character
Probes(p) ==
  {p, p \o <<"x">>, p \o <<"/">>, p \o <<"/", "x">>, p \o TeacherPath,
   <<"/", "x">> \o p, SubSeq(p, 1, Len(p) - 1)}

C24_DashboardRouteExact ==
  \A p \in Probes(pathname) \cup {decision.path} :
    LET route == getDashboardRoute(p)
        hits == {i \in 1..Len(DashboardKeys) :
                   \/ p = DashboardKeys[i]
                   \/ startsWith(p, DashboardKeys[i] \o <<"/">>)}
    IN /\ Cardinality(DashboardMatches(p)) <= 1
       /\ \A i \in 1..Len(DashboardKeys) :
            route = DashboardKeys[i] <=> i \in hits
       /\ route = NoPath <=> hits = {}

C24_Witness ==
  /\ pathname = AdminSubPath
  /\ getDashboardRoute(pathname) = AdminPath
  /\ getDashboardRoute(AdminXPath) = NoPath
  /\ decision.kind = "DENY"
  /\ decision.path = pathname
  /\ decision.role = "teacher"

(***************************************************************************)
(* C25: on /list, /profile, /settings, /logout and their sub-paths the     *)
(* decision depends on the identity only: once Clerk has loaded, every     *)
(* authenticated user is ALLOWed whatever the role (also none or an        *)
(* unknown one), and an unauthenticated visitor is DENIED.                 *)
(***************************************************************************)
\* a list route or one of its sub-paths
IsListPath(p) ==
  \E i \in 1..Len(LIST_ROUTES) :
    p = LIST_ROUTES[i] \/ startsWith(p, LIST_ROUTES[i] \o <<"/">>)

ListPaths ==
  {LIST_ROUTES[i] : i \in 1..Len(LIST_ROUTES)} \cup
  {LIST_ROUTES[i] \o <<"/", "x">> : i \in 1..Len(LIST_ROUTES)}

C25_ListIdentityOnly ==
  /\ (decision.kind \in Terminal /\ IsListPath(decision.path))
     => decision.kind = IF decision.userId = NoId THEN "DENY" ELSE "ALLOW"
  /\ (pc = "idle" /\ isLoaded /\ IsListPath(pathname))
     => /\ decision.path = pathname
        /\ decision.kind = IF userId = NoId THEN "DENY" ELSE "ALLOW"
  /\ \A p \in ListPaths :
       /\ IsListPath(p)
       /\ CheckFor(userId, session.role, p)
            = IF userId = NoId THEN "DENY" ELSE "ALLOW"

C25_Witness ==
  /\ pc = "idle"
  /\ isLoaded
  /\ pathname = ListPath
  /\ userId # NoId
  /\ user # NoUser
  /\ user.role = "guest"
  /\ decision.kind = "ALLOW"
  /\ decision.path = ListPath
  /\ decision.role = "guest"
  /\ ~isAuthLoading

(***************************************************************************)
(* C26: every path that is protected because it starts with a dashboard    *)
(* prefix D is role-gated: getDashboardRoute is non-null for it, so an     *)
(* authenticated user is ALLOWed on it only with a role of                 *)
(* DASHBOARD_ROUTES[D].                                                    *)
(***************************************************************************)
C26_PrefixIsRoleGated ==
  \A i \in 1..Len(DashboardKeys) :
    (/\ decision.kind = "ALLOW"
     /\ decision.userId # NoId
     /\ startsWith(decision.path, DashboardKeys[i]))
    => /\ getDashboardRoute(decision.path) # NoPath
       /\ decision.role \in DASHBOARD_ROUTES(DashboardKeys[i])

(***************************************************************************)
(* C27: a signed-in user whose claims role is allowed on the dashboard     *)
(* path they are on is never redirected to /sign-in, in whatever order     *)
(* isLoaded, userId and the user object become available.                  *)
(***************************************************************************)
C27_EntitledNeverSentToSignIn ==
  ~(/\ session # NoUser
    /\ userId = session.id
    /\ IsDashboardPath(pathname)
    /\ Entitled(pathname)
    /\ decision.kind = "DENY"
    /\ decision.path = pathname
    /\ decision.userId = userId
    /\ pendingPush = SignInPath)

(***************************************************************************)
(* C28: the role used in a decision belongs to the identity the decision   *)
(* is about: after the identity changed (sign-out, or one user replaced by *)
(* another without a reload) no dashboard is ALLOWed to the new identity   *)
(* on the userRole of the previous one.                                    *)
(***************************************************************************)
C28_RoleOfDecidedIdentity ==
  (/\ decision.kind = "ALLOW"
   /\ IsDashboardPath(decision.path)
   /\ decision.userId = userId
   /\ session # NoUser
   /\ userId = session.id
   /\ user = session)
  => decision.role = getUserRoleFromClaims(session)

(***************************************************************************)
(* C29: when two POST /api/user/role for the same identity without a       *)
(* record interleave (both read "absent" before either creates), both      *)
(* return 200 with role student and exactly one record exists: the second  *)
(* create does not fail because the first one created the record.          *)
(***************************************************************************)
C29_SecondCreateStep ==
  \A r \in RoleReqs("create") :
    (/\ RoleCreate(r)
     /\ resp.kind = "role"
     /\ resp.status = 200
     /\ resp.created
     /\ resolved.uid = r.uid)
    => /\ resp'.status = 200
       /\ resp'.body = DefaultRole
       /\ r.uid \in DOMAIN records'

C29_ConcurrentResolveBothSucceed == [][C29_SecondCreateStep]_allvars

(***************************************************************************)
(* C30: a verified user.created for X always gets to the mirror of the     *)
(* role into X's claims and to its 200, also when it is redelivered after  *)
(* a 500 or arrives after /api/user/role auto-created X's record: a record *)
(* that already exists never makes the handler answer 500 while X's claims *)
(* hold no role yet.                                                       *)
(***************************************************************************)
C30_CreateStep ==
  \A r \in WebhookReqs("create") :
    (WhCreate(r) /\ claims[r.uid] = "") =>
      /\ resp' = resp
      /\ BagIn([r EXCEPT !.pc = "mirror"], reqs')
      /\ r.uid \in DOMAIN records'

C30_CreatedAlwaysMirrors == [][C30_CreateStep]_allvars

(***************************************************************************)
(* C31: a user.updated notification changes only the e-mail of the record  *)
(* of its identity: the role of the record and the role in the claims are  *)
(* the same before and after the handler's write, and the record of no     *)
(* other identity is touched.                                              *)
(***************************************************************************)
C31_UpdatedStep ==
  \A r \in WebhookReqs("update") :
    WhUpdate(r) =>
      /\ claims' = claims
      /\ DOMAIN records' = DOMAIN records
      /\ \A i \in DOMAIN records :
           /\ records'[i].role = records[i].role
           /\ i # r.uid => records'[i] = records[i]
      /\ resp'.status = 200 => records'[r.uid].email = r.email

C31_UpdatedChangesEmailOnly == [][C31_UpdatedStep]_allvars

C31_Witness ==
  /\ reqs = EmptyBag
  /\ calls = 2
  /\ resp.kind = "webhook"
  /\ resp.status = 200
  /\ resolved = [uid |-> 1, role |-> DefaultRole]
  /\ 1 \in DOMAIN records
  /\ records[1] = [role |-> DefaultRole, email |-> Email]
  /\ claims[1] = ""

(***************************************************************************)
(* C32: the middleware and RouteProtector agree on what is protected: for  *)
(* every requested path the matcher isProtectedRoute of the middleware     *)
(* holds exactly when isProtectedRoute(pathname) of RouteProtector holds,  *)
(* and neither holds for "/", /sign-in or /sign-up.                        *)
(***************************************************************************)
C32_GateAgreesWithClient ==
  /\ resp.kind = "page"
       => (MwIsProtectedRoute(resp.path) <=> isProtectedRoute(resp.path))
  /\ \A p \in {RootPath, SignInPath, SignUpPath} :
       ~MwIsProtectedRoute(p) /\ ~isProtectedRoute(p)

(***************************************************************************)
(* DashboardLayout and Menu: the page-transition loader                    *)
(***************************************************************************)
ListTeachersPath == ListPath \o <<"/", "t">>

\* the pages rendered inside DashboardLayout
LayoutPaths == {AdminPath, TeacherPath, StudentPath, ParentPath,
                ListTeachersPath, ProfilePath, SettingsPath}

\* href of the menu items rendered as <Link>
MenuHrefs == {ListTeachersPath, ProfilePath, SettingsPath}

LayoutInit ==
  /\ ClientIdle /\ ServerIdle /\ SignOutIdle /\ StoreIdle
  /\ dlMounted = TRUE
  /\ dlPathname \in LayoutPaths
  /\ isLoading = FALSE
  /\ lastPath = NoPath
  /\ currentRole \in Roles \cup {Null}
  /\ navigation = NoPath
  /\ dlPc = "effect"

\* useEffect(..., [pathname, lastPath]): a path other than lastPath hides the
\* loader and becomes lastPath; the render of these updates runs the effect
\* again, which then finds nothing to do
LayoutEffect ==
  /\ dlMounted
  /\ dlPc = "effect"
  /\ IF dlPathname # lastPath
     THEN /\ isLoading' = FALSE
          /\ lastPath' = dlPathname
          /\ dlPc' = "effect"
     ELSE /\ dlPc' = "idle"
          /\ UNCHANGED <<isLoading, lastPath>>
  /\ UNCHANGED <<dlMounted, dlPathname, currentRole, navigation>>
  /\ UNCHANGED <<vars, svars, sovars, stvars>>

\* onClick of a menu <Link>: onShowLoader() unless href is lastPath; Link then
\* navigates, except for a click with a modifier key, which it leaves to the
\* browser (the page opens in another tab)
ClickLink(href, modified) ==
  /\ dlMounted
  /\ dlPc = "idle"
  /\ href \in MenuHrefs
  /\ isLoading' = IF href # lastPath THEN TRUE ELSE isLoading
  /\ navigation' = IF modified THEN navigation ELSE href
  /\ UNCHANGED <<dlMounted, dlPathname, lastPath, currentRole, dlPc>>
  /\ UNCHANGED <<vars, svars, sovars, stvars>>

\* handleHome: onShowLoader() unless the target is lastPath, then
\* router.push(target)
ClickHome ==
  /\ dlMounted
  /\ dlPc = "idle"
  /\ LET targetPath == IF currentRole = Null THEN RootPath
                        ELSE OwnDashboard(currentRole)
     IN /\ isLoading' = IF targetPath # lastPath THEN TRUE ELSE isLoading
        /\ navigation' = targetPath
  /\ UNCHANGED <<dlMounted, dlPathname, lastPath, currentRole, dlPc>>
  /\ UNCHANGED <<vars, svars, sovars, stvars>>

\* the navigation in progress commits: usePathname() returns its target; the
\* public home page is outside the layout, which unmounts
NavComplete ==
  /\ dlMounted
  /\ dlPc = "idle"
  /\ navigation # NoPath
  /\ dlPathname' = navigation
  /\ navigation' = NoPath
  /\ dlMounted' = (navigation \in LayoutPaths)
  /\ dlPc' = IF navigation \in LayoutPaths /\ navigation # dlPathname
             THEN "effect" ELSE "idle"
  /\ UNCHANGED <<isLoading, lastPath, currentRole>>
  /\ UNCHANGED <<vars, svars, sovars, stvars>>

LayoutNext ==
  \/ LayoutEffect
  \/ \E href \in MenuHrefs, modified \in BOOLEAN : ClickLink(href, modified)
  \/ ClickHome
  \/ NavComplete

LayoutSpec == LayoutInit /\ [][LayoutNext]_allvars

(***************************************************************************)
(* C33: the page-transition loader of DashboardLayout is always hidden     *)
(* again: once the effects are flushed and no navigation is in progress,   *)
(* nothing is left that could hide it, so isLoading is false and the page  *)
(* content is shown, also after a click that did not change the pathname;  *)
(* and whenever the effects are flushed lastPath is the current pathname.  *)
(***************************************************************************)
C33_LoaderNeverStuck ==
  (dlMounted /\ dlPc = "idle")
  => /\ lastPath = dlPathname
     /\ navigation = NoPath => ~isLoading

(***************************************************************************)
(* The sign-out controls                                                   *)
(***************************************************************************)
\* seconds between the first click and signOut(): setTimeout(..., 10000) in
\* ClerkSignOutButton, setTimeout(..., 2000) in Menu and SignOutInterceptor
SignOutDelay(c) == IF c = "button" THEN 10 ELSE 2

\* the first click on c: its loader goes up and its timer starts
StartSignOut(c) ==
  /\ isLoggingOut' = [isLoggingOut EXCEPT ![c] = TRUE]
  /\ soTimer' = [soTimer EXCEPT ![c] = TRUE]
  /\ soElapsed' = [soElapsed EXCEPT ![c] = 0]
  /\ soCalls' = [soCalls EXCEPT ![c] = 0]
  /\ soEarly' = [soEarly EXCEPT ![c] = FALSE]

\* signOut() is invoked for c now
InvokeSignOut(c) ==
  /\ soCalls' = [soCalls EXCEPT ![c] = @ + 1]
  /\ soEarly' = [soEarly EXCEPT
                   ![c] = @ \/ soElapsed[c] < SignOutDelay(c)]

\* ClerkSignOutButton: <button onClick={handleSignOut} disabled={isLoggingOut}>
ClickSignOutButton ==
  /\ ~soGone
  /\ soClicks < MaxClicks
  /\ soClicks' = soClicks + 1
  /\ IF isLoggingOut["button"]
     THEN UNCHANGED <<isLoggingOut, soTimer, soElapsed, soCalls, soEarly>>
     ELSE StartSignOut("button")
  /\ UNCHANGED <<handled, soGone>>
  /\ UNCHANGED <<vars, svars, dlvars, stvars>>

\* Menu, item Logout: handleLogout; once isLoggingOut is rendered the
\* full-screen overlay (fixed inset-0 z-[2000]) lies over the item
ClickMenuLogout ==
  /\ ~soGone
  /\ soClicks < MaxClicks
  /\ soClicks' = soClicks + 1
  /\ IF isLoggingOut["menu"]
     THEN UNCHANGED <<isLoggingOut, soTimer, soElapsed, soCalls, soEarly>>
     ELSE StartSignOut("menu")
  /\ UNCHANGED <<handled, soGone>>
  /\ UNCHANGED <<vars, svars, dlvars>>
  /\ IF isLoggingOut["menu"]
     THEN UNCHANGED stvars
     ELSE /\ smaAuth' = NoItem
          /\ lastOp' = "clearAuth"
          /\ authEvents' = 1
          /\ UNCHANGED <<showFlag, lastRead, slMounted, isVisible, slTimers,
                         slSince>>

\* a click on a sign-out item of a Clerk menu or dialog.  The listener of
\* SignOutInterceptor stops the first one and starts its timer; with
\* `handled` set it returns at once and the click reaches the item, whose
\* own handler signs out (ok: that signOut succeeds)
ClickIntercepted(ok) ==
  /\ ~soGone
  /\ soClicks < MaxClicks
  /\ soClicks' = soClicks + 1
  /\ IF ~handled
     THEN /\ StartSignOut("interceptor")
          /\ handled' = TRUE
          /\ UNCHANGED soGone
     ELSE /\ InvokeSignOut("interceptor")
          /\ soGone' = ok
          /\ UNCHANGED <<isLoggingOut, handled, soTimer, soElapsed>>
  /\ UNCHANGED <<vars, svars, dlvars, stvars>>

\* the timer of c runs: await signOut(...); every branch then leaves the
\* page (redirectUrl, router.push, window.location); the catch of
\* ClerkSignOutButton also takes its loader down
TimerFires(c, ok) ==
  /\ ~soGone
  /\ soTimer[c]
  /\ soElapsed[c] = SignOutDelay(c)
  /\ soTimer' = [soTimer EXCEPT ![c] = FALSE]
  /\ InvokeSignOut(c)
  /\ isLoggingOut' = IF c = "button" /\ ~ok
                     THEN [isLoggingOut EXCEPT ![c] = FALSE]
                     ELSE isLoggingOut
  /\ soGone' = TRUE
  /\ UNCHANGED <<handled, soElapsed, soClicks>>
  /\ UNCHANGED <<vars, svars, dlvars, stvars>>

\* a second passes; a timer that is due runs before the next second
SoTick ==
  /\ ~soGone
  /\ \E c \in Controls : soTimer[c]
  /\ \A c \in Controls : soTimer[c] => soElapsed[c] < SignOutDelay(c)
  /\ soElapsed' = [c \in Controls |->
                     IF soElapsed[c] >= 0 /\ soElapsed[c] < SignOutDelay(c)
                     THEN soElapsed[c] + 1 ELSE soElapsed[c]]
  /\ UNCHANGED <<isLoggingOut, handled, soTimer, soCalls, soEarly, soClicks,
                 soGone>>
  /\ UNCHANGED <<vars, svars, dlvars, stvars>>

SignOutNext ==
  \/ ClickSignOutButton
  \/ ClickMenuLogout
  \/ \E ok \in BOOLEAN : ClickIntercepted(ok)
  \/ \E c \in Controls, ok \in BOOLEAN : TimerFires(c, ok)
  \/ SoTick

\* no control was clicked yet
SignOutInit == ClientIdle /\ ServerIdle /\ UiIdle

SignOutSpec == SignOutInit /\ [][SignOutNext]_allvars

(***************************************************************************)
(* C34: over any sequence of clicks on a sign-out control (the             *)
(* ClerkSignOutButton, the Logout item of Menu, a control caught by        *)
(* SignOutInterceptor) signOut is invoked at most once, and never before   *)
(* the delay of the control (10 s, 2 s, 2 s) has passed since its first    *)
(* click.                                                                  *)
(***************************************************************************)
C34_SignOutOnceAfterDelay ==
  \A c \in Controls :
    /\ soCalls[c] <= 1
    /\ ~soEarly[c]

(***************************************************************************)
(* The demo auth store (localStorage item sma_auth) and the SignInLoader   *)
(***************************************************************************)
\* a JSON text is a sequence of tokens: punctuation and literals, strings
P(v) == [k |-> "p", v |-> v]
S(v) == [k |-> "s", v |-> v]

\* JavaScript values: primitives, and objects by their two fields
JsUndefined == [t |-> "undefined", b |-> FALSE, s |-> ""]
JsNull == [t |-> "null", b |-> FALSE, s |-> ""]
JsBool(b) == [t |-> "boolean", b |-> b, s |-> ""]
JsStr(s) == [t |-> "string", b |-> FALSE, s |-> s]
JsObj(role, authenticated) ==
  [t |-> "object", role |-> role, authenticated |-> authenticated]

\* variant: the role is left out of the stored text
JSONstringifyAuthOnly(payload) ==
  << P("{"), S("authenticated"), P(":"),
     P(IF payload.authenticated THEN "true" ELSE "false"), P("}") >>

\* JSON.stringify({ role, authenticated })
JSONstringify(payload) ==
  << P("{"), S("role"), P(":"), S(payload.role), P(","),
     S("authenticated"), P(":"),
     P(IF payload.authenticated THEN "true" ELSE "false"), P("}") >>

IsValueTok(tok) == tok.k = "s" \/ tok.v \in {"true", "false", "null"}

TokValue(tok) ==
  IF tok.k = "s" THEN JsStr(tok.v)
  ELSE IF tok.v = "null" THEN JsNull
  ELSE JsBool(tok.v = "true")

\* key : value { , key : value }
IsMembers(m) ==
  /\ Len(m) % 4 = 3
  /\ \A i \in 1..Len(m) :
       CASE i % 4 = 1 -> m[i].k = "s"
         [] i % 4 = 2 -> m[i] = P(":")
         [] i % 4 = 3 -> IsValueTok(m[i])
         [] OTHER -> m[i] = P(",")

\* the value of the last member named key, undefined without one
Member(m, key) ==
  LET at == {i \in 1..Len(m) : i % 4 = 1 /\ m[i] = S(key)}
  IN IF at = {} THEN JsUndefined
     ELSE TokValue(m[(CHOOSE i \in at : \A j \in at : j <= i) + 2])

\* JSON.parse(text): ok is false where it throws a SyntaxError
JSONparse(text) ==
  LET n == Len(text)
      m == SubSeq(text, 2, n - 1)
  IN IF n = 1 /\ IsValueTok(text[1])
     THEN [ok |-> TRUE, value |-> TokValue(text[1])]
     ELSE IF /\ n >= 2
             /\ text[1] = P("{")
             /\ text[n] = P("}")
             /\ (n = 2 \/ IsMembers(m))
     THEN [ok |-> TRUE,
           value |-> JsObj(Member(m, "role"), Member(m, "authenticated"))]
     ELSE [ok |-> FALSE, value |-> JsUndefined]

\* getAuth() over the item stored under sma_auth
getAuth(item) ==
  IF ~item.present \/ item.text = <<>>
  THEN JsObj(JsUndefined, JsBool(FALSE))
  ELSE LET r == JSONparse(item.text)
       IN IF r.ok THEN r.value ELSE JsObj(JsUndefined, JsBool(FALSE))

\* isAuthenticated(): getAuth().authenticated === true; reading a property
\* of null throws a TypeError
isAuthenticated(item) ==
  LET a == getAuth(item)
  IN [threw |-> a.t = "null",
      result |-> a.t = "object" /\ a.authenticated = JsBool(TRUE)]

\* getRole(): getAuth().role ?? null
getRole(item) ==
  LET a == getAuth(item)
  IN [threw |-> a.t = "null",
      result |-> IF a.t = "object" /\ a.role.t \notin {"undefined", "null"}
                 THEN a.role ELSE JsNull]

\* durationMs = 3000, and the step of the clock
DurationMs == 3000
TickMs == 1000

\* what may be found under sma_auth when the page loads
StoredItems ==
  {NoItem}
  \cup {[present |-> TRUE, text |-> t] :
          t \in {<<>>, <<P("{")>>, <<P("null")>>, <<P("true")>>,
                 <<S("admin")>>, <<P("{"), P("}")>>,
                 <<P("{"), S("authenticated"), P(":"), P("false"), P("}")>>,
                 <<P("{"), S("authenticated"), P(":"), S("true"), P("}")>>,
                 <<P("{"), S("role"), P(":"), S("admin"), P("}")>>}}
  \cup {[present |-> TRUE,
         text |-> JSONstringify([role |-> r, authenticated |-> TRUE])] :
          r \in Roles}

StoreInit ==
  /\ ClientIdle /\ ServerIdle /\ LayoutIdle /\ SignOutIdle
  /\ smaAuth \in StoredItems
  /\ showFlag \in {Null, "1"}
  /\ lastOp = "none"
  /\ authEvents = 0
  /\ lastRead = [threw |-> FALSE, authenticated |-> FALSE, role |-> Null]
  /\ slMounted = FALSE
  /\ isVisible = FALSE
  /\ slTimers = {}
  /\ slSince = -1

\* showOnce(): the timer variable is overwritten, an earlier timer stays
showOnce ==
  /\ isVisible' = TRUE
  /\ slTimers' = slTimers \cup {DurationMs}
  /\ slSince' = 0

\* the effect of SignInLoader at mount
SlMount ==
  /\ ~slMounted
  /\ slMounted' = TRUE
  /\ IF showFlag = "1"
     THEN showOnce
     ELSE UNCHANGED <<isVisible, slTimers, slSince>>
  /\ UNCHANGED <<smaAuth, showFlag, lastOp, authEvents, lastRead>>
  /\ UNCHANGED <<vars, svars, dlvars, sovars>>

\* setAuth(role); the event sma_show_signin reaches a mounted SignInLoader
setAuth(role) ==
  /\ smaAuth' = [present |-> TRUE,
                 text |-> JSONstringify([role |-> role,
                                         authenticated |-> TRUE])]
  /\ authEvents' = 1
  /\ showFlag' = "1"
  /\ lastOp' = "setAuth"
  /\ IF slMounted
     THEN showOnce
     ELSE UNCHANGED <<isVisible, slTimers, slSince>>
  /\ UNCHANGED <<lastRead, slMounted>>
  /\ UNCHANGED <<vars, svars, dlvars, sovars>>

\* clearAuth()
clearAuth ==
  /\ smaAuth' = NoItem
  /\ authEvents' = 1
  /\ lastOp' = "clearAuth"
  /\ UNCHANGED <<showFlag, lastRead, slMounted, isVisible, slTimers, slSince>>
  /\ UNCHANGED <<vars, svars, dlvars, sovars>>

\* a component reads the store: isAuthenticated() ? getRole() : null
ReadAuth ==
  /\ lastRead' =
       IF isAuthenticated(smaAuth).threw
       THEN [threw |-> TRUE, authenticated |-> FALSE, role |-> Null]
       ELSE IF isAuthenticated(smaAuth).result
                /\ getRole(smaAuth).result.t = "string"
       THEN [threw |-> FALSE, authenticated |-> TRUE,
             role |-> getRole(smaAuth).result.s]
       ELSE [threw |-> FALSE,
             authenticated |-> isAuthenticated(smaAuth).result,
             role |-> Null]
  /\ UNCHANGED <<smaAuth, showFlag, lastOp, authEvents, slMounted, isVisible,
                 slTimers, slSince>>
  /\ UNCHANGED <<vars, svars, dlvars, sovars>>

\* a timer of showOnce runs
SlTimerFires ==
  /\ 0 \in slTimers
  /\ slTimers' = slTimers \ {0}
  /\ isVisible' = FALSE
  /\ showFlag' = Null
  /\ UNCHANGED <<smaAuth, lastOp, authEvents, lastRead, slMounted, slSince>>
  /\ UNCHANGED <<vars, svars, dlvars, sovars>>

\* TickMs pass; a timer that is due runs first
SlTick ==
  /\ slTimers # {}
  /\ 0 \notin slTimers
  /\ slTimers' = {t - TickMs : t \in slTimers}
  /\ slSince' = IF slSince < 0 \/ slSince >= DurationMs
                THEN slSince ELSE slSince + TickMs
  /\ UNCHANGED <<smaAuth, showFlag, lastOp, authEvents, lastRead, slMounted,
                 isVisible>>
  /\ UNCHANGED <<vars, svars, dlvars, sovars>>

StoreNext ==
  \/ SlMount
  \/ \E role \in Roles : setAuth(role)
  \/ clearAuth
  \/ ReadAuth
  \/ SlTimerFires
  \/ SlTick

StoreSpec == StoreInit /\ [][StoreNext]_allvars

(***************************************************************************)
(* C37: getAuth never fails and falls back to unauthenticated: whatever is *)
(* stored under sma_auth (nothing, the empty text, unparsable text, valid  *)
(* JSON that is not an auth object such as null), getAuth returns a record *)
(* with a boolean field authenticated, isAuthenticated() is false unless   *)
(* the stored record says authenticated = true, and neither                *)
(* isAuthenticated() nor getRole() throws.                                 *)
(***************************************************************************)
C37_GetAuthNeverFails ==
  /\ getAuth(smaAuth).t = "object"
  /\ getAuth(smaAuth).t = "object"
       => getAuth(smaAuth).authenticated.t = "boolean"
  /\ ~isAuthenticated(smaAuth).threw
  /\ ~getRole(smaAuth).threw
  /\ ~lastRead.threw
  /\ isAuthenticated(smaAuth).result
       => /\ smaAuth.present
          /\ JSONparse(smaAuth.text).ok
          /\ JSONparse(smaAuth.text).value.t = "object"
          /\ JSONparse(smaAuth.text).value.authenticated = JsBool(TRUE)

(***************************************************************************)
(* C36: the demo auth store round-trips: after setAuth(r),                 *)
(* isAuthenticated() is true and getRole() returns r; after clearAuth(),   *)
(* isAuthenticated() is false and getRole() is null; each of setAuth and   *)
(* clearAuth dispatches exactly one sma_auth_change event, and setAuth     *)
(* also sets the flag sma_show_signin_loader to '1'.                       *)
(***************************************************************************)
C36_StoreStep ==
  /\ \A r \in Roles :
       setAuth(r) =>
         /\ isAuthenticated(smaAuth') = [threw |-> FALSE, result |-> TRUE]
         /\ getRole(smaAuth') = [threw |-> FALSE, result |-> JsStr(r)]
         /\ authEvents' = 1
         /\ showFlag' = "1"
  /\ clearAuth =>
       /\ isAuthenticated(smaAuth') = [threw |-> FALSE, result |-> FALSE]
       /\ getRole(smaAuth') = [threw |-> FALSE, result |-> JsNull]
       /\ authEvents' = 1

C35_HideStep ==
  (isVisible /\ ~isVisible')
  => /\ slSince >= DurationMs
     /\ showFlag' = Null

C35_LoaderShownInFull == [][C35_HideStep]_allvars

====
